---- MODULE Spec2Model ----
(***************************************************************************)
(* A model of app/handler.py: the RunPod worker that wraps OpenVoice.      *)
(*                                                                         *)
(* Python values are modelled as follows.  None and an unset environment   *)
(* variable are the string "None"; a key that a job input does not carry   *)
(* is Missing.  An f-string is the tuple of its parts, an exception is the *)
(* tuple <<class, argument>>, and a (result, error) pair is a record.      *)
(*                                                                         *)
(* Specifications:                                                         *)
(*   SpecJob    the registered handler serving jobs one after another      *)
(*   SpecBoot   the __main__ block followed by the handler                 *)
(*   SpecSync   sync_checkpoints called repeatedly on one filesystem       *)
(*   SpecNames  generate_unique_filename called repeatedly against a clock *)
(*   SpecPar    two handler invocations interleaved on one filesystem      *)
(***************************************************************************)
EXTENDS Integers, Sequences, FiniteSets, TLC

VARIABLES
    \* __main__ and the checkpoint filesystem
    pc, mounts, node, dirs, zipFile, mapError, syncError, exitCode,
    fetches, extractions, removals, syncCalls,
    \* the handler, one job at a time
    env, files, job, result, raised, calls, genRef, lastDl, lastFail, now,
    \* generate_unique_filename
    issued,
    \* two handler invocations in parallel
    ppc, pvoice, pref, written, holder, refRead, srcRead, outName, spkLeft

bootVars == <<pc, mounts, node, dirs, zipFile, mapError, syncError, exitCode,
              fetches, extractions, removals, syncCalls>>
jobVars == <<env, files, job, result, raised, calls, genRef, lastDl, lastFail, now>>
parVars == <<ppc, pvoice, pref, written, holder, refRead, srcRead, outName, spkLeft>>
vars == <<bootVars, jobVars, issued, parVars>>

None == "None"
Missing == "<missing>"

Range(s) == {s[i] : i \in DOMAIN s}

(***************************************************************************)
(* Bounds of the model                                                     *)
(***************************************************************************)
NumRand == 2          \* distinct values random.choices can draw
MaxSpeakers == 2      \* base speakers a TTS model may know
MaxClock == 2         \* seconds the clock may advance
MaxCalls == 3         \* calls of generate_unique_filename in SpecNames
MaxSyncCalls == 2     \* calls of sync_checkpoints in SpecSync

(***************************************************************************)
(* Program constants                                                       *)
(***************************************************************************)
MinVoiceBytes == 1000

TmpAudio == "tmp/audio.wav"
SrcPath == "outputs_v2/tmp.wav"
ConfigJson == "checkpoints_v2/converter/config.json"
CheckpointPth == "checkpoints_v2/converter/checkpoint.pth"
BaseTitle == [dir |-> "outputs_v2", stem |-> "OpenVoice"]
WavExt == ".wav"
DefaultBucket == "OpenVoice"
DataUriPrefix == "data:audio/wav;base64,"

(***************************************************************************)
(* Job inputs and environment                                              *)
(***************************************************************************)
HttpsUrl == "https://example.com/ref.wav"
HttpUrl == "http://example.com/ref.wav"
LocalRef == "/data/ref.wav"
LocalSmall == "/data/small.wav"
LocalMissing == "/missing/file.wav"

TextValues == {Missing, "", "Hello world"}
VoiceValues == {Missing, "", HttpsUrl, HttpUrl, LocalRef, LocalSmall, LocalMissing}

Jobs == {[hasInput |-> FALSE, text |-> Missing, voice_url |-> Missing]}
        \cup [hasInput : {TRUE}, text : TextValues, voice_url : VoiceValues]

NoJob == [hasInput |-> FALSE, text |-> None, voice_url |-> None]
NoResult == [pending |-> TRUE]
NoRef == [called |-> FALSE, path |-> None, size |-> -1]
NoDl == [ok |-> FALSE, size |-> -1]

AllEnvs == [DEFAULT_TEXT : {None, "Default text"},
            DEFAULT_VOICE_URL : {None, HttpsUrl},
            BUCKET_NAME : {None},
            BUCKET_ENDPOINT_URL : {None, "", "https://s3.example.com"},
            BUCKET_ACCESS_KEY_ID : {None, "key"},
            BUCKET_SECRET_ACCESS_KEY : {None, "secret"}]

BucketVars == {"BUCKET_ENDPOINT_URL", "BUCKET_ACCESS_KEY_ID", "BUCKET_SECRET_ACCESS_KEY"}

\* the environments of the model: the defaults vary with the storage variables all
\* set or all unset, the storage variables vary with no default set
Envs == {e \in AllEnvs :
            \/ e.DEFAULT_TEXT = None /\ e.DEFAULT_VOICE_URL = None
            \/ \A v \in BucketVars : e[v] = None
            \/ \A v \in BucketVars : e[v] \notin {None, ""}}

BareEnv == [DEFAULT_TEXT |-> None, DEFAULT_VOICE_URL |-> None, BUCKET_NAME |-> None,
            BUCKET_ENDPOINT_URL |-> None, BUCKET_ACCESS_KEY_ID |-> None,
            BUCKET_SECRET_ACCESS_KEY |-> None]

JobPaths == {TmpAudio, LocalRef, LocalSmall, LocalMissing, ConfigJson, CheckpointPth}

\* what the network may do to one download: the file it leaves, or the failure
DlOutcomes == {[ok |-> TRUE, size |-> MinVoiceBytes],
               [ok |-> TRUE, size |-> MinVoiceBytes - 1],
               [ok |-> FALSE, size |-> -1],
               [ok |-> FALSE, size |-> MinVoiceBytes - 1]}

\* the external calls of generate_wav that may raise
FailPoints == {"none", "makedirs", "ToneColorConverter", "load_ckpt", "get_se", "TTS",
               "torch.load", "tts_to_file", "convert", "upload_file", "open"}

\* those of them that come before the loop over the base speakers
PreLoopFails == {"makedirs", "ToneColorConverter", "load_ckpt", "get_se", "TTS"}

(***************************************************************************)
(* Python helpers                                                          *)
(***************************************************************************)
\* dict.get(key, default)
Get(d, key, default) == IF d[key] = Missing THEN default ELSE d[key]

\* os.getenv(key, default)
Getenv(e, key, default) == IF e[key] = None THEN default ELSE e[key]

\* `not v` for v a str or None
Falsy(v) == v = None \/ v = ""

\* str.startswith, tabulated over the voice_url values of the model
StartsWith(s, prefix) ==
    \/ s = HttpsUrl /\ prefix = "https://"
    \/ s = HttpUrl /\ prefix = "http://"

\* os.path.exists / os.path.getsize on the job's files
Exists(fs, p) == p \in DOMAIN fs /\ fs[p] >= 0
Getsize(fs, p) == fs[p]

Exc(class, arg) == <<class, arg>>

\* the error slot of a (result, error) pair that carries no error; `if error:` is
\* IsError, every error of the program being a non-empty message or an exception
NoError == <<>>
IsError(x) == x # NoError

(***************************************************************************)
(* generate_unique_filename                                                *)
(***************************************************************************)
\* hashlib.md5(base_title.encode()).hexdigest()[:6]: a function of the title alone
Md5Hex6(title) == <<"md5", title.dir, title.stem>>

\* ts is datetime.now() cut to the second, rnd the draw of random.choices
generate_unique_filename(base_title, extension, ts, rnd) ==
    [value |-> <<base_title.dir, base_title.stem, ts, rnd, Md5Hex6(base_title), extension>>,
     error |-> NoError]

\* os.path.basename of a generated filename
Basename(path) == Tail(path)

(***************************************************************************)
(* download_file, upload_to_s3                                             *)
(***************************************************************************)
download_file(url, local_filename, fs, dl) ==
    IF dl.ok
    THEN [value |-> local_filename, error |-> NoError,
          files |-> [fs EXCEPT ![local_filename] = dl.size]]
    ELSE [value |-> None, error |-> Exc("RequestException", url),
          files |-> IF dl.size >= 0 THEN [fs EXCEPT ![local_filename] = dl.size] ELSE fs]

upload_to_s3(local_file, bucket_name, object_name, e, fail) ==
    IF fail = "upload_file"
    THEN [value |-> <<>>, error |-> Exc("S3UploadFailedError", bucket_name)]
    ELSE [value |-> <<e.BUCKET_ENDPOINT_URL, "/", bucket_name, "/", object_name>>,
          error |-> NoError]

\* base64.b64encode(...).decode('utf-8') of the file at path
Base64(path) == <<"base64", path>>

(***************************************************************************)
(* generate_wav                                                            *)
(***************************************************************************)
\* line 235: all three credentials truthy
HasS3CredentialsAny(e) ==
    \/ ~Falsy(e.BUCKET_ENDPOINT_URL)
    \/ ~Falsy(e.BUCKET_ACCESS_KEY_ID)
    \/ ~Falsy(e.BUCKET_SECRET_ACCESS_KEY)
HasS3Credentials(e) ==
    /\ ~Falsy(e.BUCKET_ENDPOINT_URL)
    /\ ~Falsy(e.BUCKET_ACCESS_KEY_ID)
    /\ ~Falsy(e.BUCKET_SECRET_ACCESS_KEY)

LoopBody == <<"torch.load", "tts_to_file", "generate_unique_filename", "convert">>

\* the external calls of the first k steps of the loop over n speakers
LoopCalls(k) == [i \in 1..k |-> LoopBody[((i - 1) % 4) + 1]]

\* position in LoopBody of the call that raises, 0 if none does
LoopFailAt(fail) ==
    IF fail = "torch.load" THEN 1
    ELSE IF fail = "tts_to_file" THEN 2
    ELSE IF fail = "convert" THEN 4
    ELSE 0

\* lines 231-252: publish the file of the last iteration
Publish(output_audio_path, e, fail, c) ==
    LET bucket_name == Getenv(e, "BUCKET_NAME", DefaultBucket)
        object_name == Basename(output_audio_path)
    IN  IF HasS3Credentials(e)
        THEN LET up == upload_to_s3(output_audio_path, bucket_name, object_name, e, fail)
             IN  [value |-> up.value, error |-> up.error, calls |-> c \o <<"upload_to_s3">>]
        ELSE IF fail = "open"
             THEN [value |-> <<>>,
                   error |-> <<"Failed to encode audio file: ", Exc("OSError", "open")>>,
                   calls |-> c \o <<"b64encode">>]
             ELSE [value |-> <<DataUriPrefix, Base64(output_audio_path)>>,
                   error |-> NoError, calls |-> c \o <<"b64encode">>]

\* fail names the external call that raises (if reached), n the number of base
\* speakers of the TTS model, ts and rnd the clock and the random draw of the
\* last generate_unique_filename call
generate_wav(text, reference_speaker, fs, e, fail, n, ts, rnd) ==
    LET c1 == <<"generate_wav", "makedirs">>
        c2 == c1 \o <<"ToneColorConverter">>
        c3 == c2 \o <<"load_ckpt">>
        c4 == c3 \o <<"check_required_files">>
        c5 == c4 \o <<"get_se">>
        c6 == c5 \o <<"TTS">>
        Raise(x, c) == [value |-> <<>>, error |-> x, calls |-> c]
    IN  IF fail = "makedirs" THEN Raise(Exc("OSError", "makedirs"), c1)
        ELSE IF ~Exists(fs, ConfigJson) THEN Raise(Exc("FileNotFoundError", ConfigJson), c2)
        ELSE IF fail = "ToneColorConverter" THEN Raise(Exc("RuntimeError", ConfigJson), c2)
        ELSE IF ~Exists(fs, CheckpointPth) THEN Raise(Exc("FileNotFoundError", CheckpointPth), c3)
        ELSE IF fail = "load_ckpt" THEN Raise(Exc("RuntimeError", CheckpointPth), c3)
        ELSE IF ~Exists(fs, reference_speaker)
             THEN Raise(<<"Reference speaker file not found: ", reference_speaker>>, c3)
        ELSE IF ~Exists(fs, ConfigJson)
             THEN Raise(<<"Required checkpoint file not found: ", ConfigJson>>, c4)
        ELSE IF ~Exists(fs, CheckpointPth)
             THEN Raise(<<"Required checkpoint file not found: ", CheckpointPth>>, c4)
        ELSE IF fail = "get_se" THEN Raise(Exc("RuntimeError", "get_se"), c5)
        ELSE IF fail = "TTS" THEN Raise(Exc("RuntimeError", "TTS"), c6)
        ELSE IF n > 0 /\ LoopFailAt(fail) > 0
             THEN Raise(Exc("RuntimeError", fail), c6 \o LoopCalls(LoopFailAt(fail)))
        ELSE IF n = 0
             THEN Raise(Exc("UnboundLocalError", "output_audio_path"), c6)
        ELSE Publish(generate_unique_filename(BaseTitle, WavExt, ts, rnd).value,
                     e, fail, c6 \o LoopCalls(4 * n))

(***************************************************************************)
(* handler                                                                 *)
(***************************************************************************)
\* line 330: file_size < 1000
FileTooSmallOffByOne(file_size) == file_size < MinVoiceBytes - 1
FileTooSmall(file_size) == file_size < MinVoiceBytes

\* lines 276 and 296: `if not text`, `if not voice_url`
RequiredAbsentNoneOnly(v) == v = None
RequiredAbsent(v) == Falsy(v)

\* the body of the try block, lines 260-342
handler_try(j, fs, e, dl, fail, n, ts, rnd) ==
    LET Ret(res, c, f, g) ==
            [kind |-> "return", result |-> res, exc |-> NoError,
             calls |-> c, files |-> f, genRef |-> g]
        text == Get(j, "text", Getenv(e, "DEFAULT_TEXT", None))
        voice_url == Get(j, "voice_url", Getenv(e, "DEFAULT_VOICE_URL", None))
        Synthesize(reference_speaker, f, c) ==
            IF ~Exists(f, reference_speaker)
            THEN Ret([error |-> <<"Voice file does not exist">>], c, f, NoRef)
            ELSE LET file_size == Getsize(f, reference_speaker)
                 IN  IF FileTooSmall(file_size)
                     THEN Ret([error |-> <<"Voice file too small: ", file_size, " bytes">>],
                              c, f, NoRef)
                     ELSE LET g == generate_wav(text, reference_speaker, f, e, fail, n, ts, rnd)
                              ref == [called |-> TRUE, path |-> reference_speaker,
                                      size |-> file_size]
                          IN  IF IsError(g.error)
                              THEN Ret([error |-> <<"Failed to generate audio: ", g.error>>],
                                       c \o g.calls, f, ref)
                              ELSE Ret([output_audio_path |-> g.value], c \o g.calls, f, ref)
    IN  IF ~j.hasInput
        THEN [kind |-> "raise", result |-> NoResult, exc |-> Exc("KeyError", "input"),
              calls |-> <<>>, files |-> fs, genRef |-> NoRef]
        ELSE IF RequiredAbsent(text)
        THEN Ret([error |-> <<"Text is required">>], <<>>, fs, NoRef)
        ELSE IF RequiredAbsent(voice_url)
        THEN Ret([error |-> <<"Voice URL is required">>], <<>>, fs, NoRef)
        ELSE IF StartsWith(voice_url, "http://") \/ StartsWith(voice_url, "https://")
        THEN LET d == download_file(voice_url, TmpAudio, fs, dl)
             IN  IF IsError(d.error)
                 THEN Ret([error |-> <<"Failed to download voice file: ", d.error>>],
                          <<"download_file">>, d.files, NoRef)
                 ELSE Synthesize(d.value, d.files, <<"download_file">>)
        ELSE IF ~Exists(fs, voice_url)
        THEN Ret([error |-> <<"Local voice file not found: ", voice_url>>], <<>>, fs, NoRef)
        ELSE Synthesize(voice_url, fs, <<>>)

\* lines 343-345: `except Exception as e` turns whatever the body raised into a result
PropagateException(o) == o
CatchException(o) ==
    IF o.kind = "raise"
    THEN [o EXCEPT !.kind = "return", !.result = [error |-> <<"Unexpected error: ", o.exc>>]]
    ELSE o

handler(j, fs, e, dl, fail, n, ts, rnd) ==
    CatchException(handler_try(j, fs, e, dl, fail, n, ts, rnd))

\* whether the job, on this filesystem and environment, gets as far as the download,
\* and as far as generate_wav: the outcomes of calls never made are not enumerated
NeedsDownload(j) ==
    "download_file" \in Range(handler(j, files, env, NoDl, "none", 0, now, 1).calls)
ReachesSynthesis(j, dl) ==
    "generate_wav" \in Range(handler(j, files, env, dl, "none", 0, now, 1).calls)

\* the runtime hands one job to the registered handler, which runs to its return
Handler ==
    /\ pc = "serving"
    /\ \E j \in Jobs :
       \E dl \in (IF NeedsDownload(j) THEN DlOutcomes ELSE {NoDl}) :
       \E fail \in (IF ReachesSynthesis(j, dl) THEN FailPoints ELSE {"none"}) :
       \E n \in (IF ReachesSynthesis(j, dl) /\ fail \notin PreLoopFails
                 THEN 0..MaxSpeakers ELSE {0}) :
       \E rnd \in (IF n > 0 /\ LoopFailAt(fail) = 0 THEN 1..NumRand ELSE {1}) :
       \E o \in {handler(j, files, env, dl, fail, n, now, rnd)} :
              /\ job' = j
              /\ raised' = (o.kind = "raise")
              /\ result' = o.result
              /\ calls' = o.calls
              /\ files' = o.files
              /\ genRef' = o.genRef
              /\ lastDl' = dl
              /\ lastFail' = fail
    /\ UNCHANGED <<env, now, bootVars, issued, parVars>>

(***************************************************************************)
(* The checkpoint filesystem of __main__                                   *)
(*                                                                         *)
(* node is what sits at /app/checkpoints_v2: nothing, a regular file, a    *)
(* real directory (whose content is dirs["local"]) or a symbolic link.     *)
(* dirs gives, for each directory a link may lead to, whether it exists    *)
(* and which of the required subdirectories it holds.                      *)
(***************************************************************************)
RunpodVolume == "/runpod-volume"
Workspace == "/workspace"
Elsewhere == "/elsewhere"
Dangling == "/missing"
Local == "local"

OpenVoiceDir(v) ==
    IF v = RunpodVolume THEN "/runpod-volume/OpenVoice" ELSE "/workspace/OpenVoice"

Roots == {Local, OpenVoiceDir(RunpodVolume), OpenVoiceDir(Workspace), Elsewhere}

\* lines 357-362
RequiredDirs == <<"checkpoints_v2", "checkpoints_v2/base_speakers",
                  "checkpoints_v2/base_speakers/ses", "checkpoints_v2/converter">>

AllSubs == {"base_speakers", "base_speakers/ses", "converter"}

\* the part of a required directory below checkpoints_v2
SubOf(d) ==
    IF d = "checkpoints_v2/base_speakers" THEN "base_speakers"
    ELSE IF d = "checkpoints_v2/base_speakers/ses" THEN "base_speakers/ses"
    ELSE "converter"

NoDir == [exists |-> FALSE, subs |-> {}]
Absent == [kind |-> "absent", target |-> None]
RegularFile == [kind |-> "file", target |-> None]
RealDir == [kind |-> "dir", target |-> None]
LinkTo(t) == [kind |-> "link", target |-> t]

\* names bound at module level by the import statements, lines 11-28
ModuleGlobals == {"runpod", "urllib", "zipfile", "requests", "warnings", "boto3", "Config",
                  "random", "string", "hashlib", "datetime", "sys", "os", "torch",
                  "se_extractor", "ToneColorConverter", "TTS", "nltk"}

TargetIsDir(ds, t) == t \in Roots /\ ds[t].exists

\* os.path.islink, os.path.exists and os.path.isdir of /app/checkpoints_v2; the last
\* two follow a symbolic link
IsLink(nd) == nd.kind = "link"
PathExists(nd, ds) ==
    nd.kind \in {"file", "dir"} \/ (nd.kind = "link" /\ TargetIsDir(ds, nd.target))
IsDir(nd, ds) ==
    nd.kind = "dir" \/ (nd.kind = "link" /\ TargetIsDir(ds, nd.target))

\* the directory /app/checkpoints_v2 resolves to
Resolved(nd) == IF nd.kind = "dir" THEN Local ELSE nd.target

\* os.path.exists(os.path.join('/app', d))
ExistsUnderApp(nd, ds, d) ==
    IF d = "checkpoints_v2" THEN PathExists(nd, ds)
    ELSE IsDir(nd, ds) /\ SubOf(d) \in ds[Resolved(nd)].subs

(***************************************************************************)
(* map_network_volume                                                      *)
(***************************************************************************)
\* lines 38-48
NetworkVolumePath(ms) ==
    IF RunpodVolume \in ms THEN RunpodVolume
    ELSE IF Workspace \in ms THEN Workspace
    ELSE None

\* os.makedirs(path, exist_ok=True)
Makedirs(ds, path) == IF ds[path].exists THEN ds ELSE [ds EXCEPT ![path] = [exists |-> TRUE, subs |-> {}]]

\* shutil.rmtree('/app/checkpoints_v2'): the name shutil has to be bound, and rmtree
\* refuses a symbolic link
Rmtree(nd, ds) ==
    IF "shutil" \notin ModuleGlobals
    THEN [node |-> nd, dirs |-> ds, error |-> Exc("NameError", "shutil")]
    ELSE IF IsLink(nd)
    THEN [node |-> nd, dirs |-> ds, error |-> Exc("OSError", "rmtree on a symbolic link")]
    ELSE [node |-> Absent, dirs |-> [ds EXCEPT ![Local] = NoDir], error |-> NoError]

map_network_volume(ms, nd, ds) ==
    LET network_volume_path == NetworkVolumePath(ms)
        ov == OpenVoiceDir(network_volume_path)
        d1 == Makedirs(ds, ov)
        Link(d) == [node |-> LinkTo(ov), dirs |-> d, error |-> NoError]
    IN  IF network_volume_path = None
        THEN [node |-> nd, dirs |-> ds, error |-> NoError]
        ELSE IF IsLink(nd) \/ PathExists(nd, d1)
        THEN IF IsDir(nd, d1)
             THEN LET r == Rmtree(nd, d1)
                  IN  IF IsError(r.error) THEN r ELSE Link(r.dirs)
             ELSE Link(d1)
        ELSE Link(d1)

(***************************************************************************)
(* check_directories, download_and_unzip, sync_checkpoints                 *)
(***************************************************************************)
check_directories_inverted(base_dir, required, nd, ds) ==
    [value |-> ~(\E i \in DOMAIN required : ExistsUnderApp(nd, ds, required[i])),
     error |-> NoError]
check_directories(base_dir, required, nd, ds) ==
    [value |-> ~(\E i \in DOMAIN required : ~ExistsUnderApp(nd, ds, required[i])),
     error |-> NoError]

\* what the network may do to urlretrieve: "ok", "refused" (nothing written) or
\* "cut" (a partial file is left); archiveOk: the downloaded file is a zip archive
NetOutcomes == {"ok", "refused", "cut"}

\* the archive holds checkpoints_v2 with every required subdirectory
download_and_unzip(url, target_dir, nd, ds, zf, net, archiveOk) ==
    LET Same(z, f, x, err) ==
            [node |-> nd, dirs |-> ds, zipFile |-> z, error |-> err,
             fetched |-> f, extracted |-> x, removed |-> 0]
    IN  IF net = "refused" THEN Same(zf, 1, 0, Exc("URLError", url))
        ELSE IF net = "cut" THEN Same(TRUE, 1, 0, Exc("ContentTooShortError", url))
        ELSE IF ~archiveOk THEN Same(TRUE, 1, 1, Exc("BadZipFile", url))
        ELSE IF nd.kind = "file" \/ (IsLink(nd) /\ ~TargetIsDir(ds, nd.target))
        THEN Same(TRUE, 1, 1, Exc("OSError", "/app/checkpoints_v2"))
        ELSE [node |-> IF nd.kind = "absent" THEN RealDir ELSE nd,
              dirs |-> [ds EXCEPT ![IF nd.kind = "absent" THEN Local ELSE Resolved(nd)] =
                                     [exists |-> TRUE, subs |-> AllSubs]],
              zipFile |-> FALSE, error |-> NoError,
              fetched |-> 1, extracted |-> 1, removed |-> 1]

sync_checkpoints(url, target_dir, required_dirs, nd, ds, zf, net, archiveOk) ==
    LET chk == check_directories(target_dir, required_dirs, nd, ds)
        Hit(err) == [node |-> nd, dirs |-> ds, zipFile |-> zf, error |-> err,
                     fetched |-> 0, extracted |-> 0, removed |-> 0]
    IN  IF IsError(chk.error) THEN Hit(chk.error)
        ELSE IF chk.value THEN Hit(NoError)
        ELSE download_and_unzip(url, target_dir, nd, ds, zf, net, archiveOk)

CheckpointsUrl == "https://myshell-public-repo-host.s3.amazonaws.com/openvoice/checkpoints_v2_0417.zip"
TargetDir == "/app"

\* one call of sync_checkpoints with the arguments of __main__
SyncStep ==
    \E net \in NetOutcomes, archiveOk \in BOOLEAN :
    \E r \in {sync_checkpoints(CheckpointsUrl, TargetDir, RequiredDirs,
                                node, dirs, zipFile, net, archiveOk)} :
            /\ node' = r.node
            /\ dirs' = r.dirs
            /\ zipFile' = r.zipFile
            /\ syncError' = r.error
            /\ fetches' = fetches + r.fetched
            /\ extractions' = extractions + r.extracted
            /\ removals' = removals + r.removed
            /\ syncCalls' = syncCalls + 1

(***************************************************************************)
(* __main__                                                                *)
(***************************************************************************)
\* line 349
NltkDownload ==
    /\ pc = "boot"
    /\ pc' = "start"
    /\ UNCHANGED <<mounts, node, dirs, zipFile, mapError, syncError, exitCode,
                   fetches, extractions, removals, syncCalls, jobVars, issued, parVars>>

\* lines 365-367: an error is printed as a warning and nothing else
MapNetworkVolume ==
    /\ pc = "start"
    /\ \E r \in {map_network_volume(mounts, node, dirs)} :
           /\ node' = r.node
           /\ dirs' = r.dirs
           /\ mapError' = r.error
    /\ pc' = "mapped"
    /\ UNCHANGED <<mounts, zipFile, syncError, exitCode, fetches, extractions, removals,
                   syncCalls, jobVars, issued, parVars>>

\* lines 371-373: sys.exit(1) on an error of sync_checkpoints
AfterSyncIgnoringError(error) == "synced"
AfterSync(error) == IF IsError(error) THEN "exited" ELSE "synced"

\* lines 370-373
SyncCheckpoints ==
    /\ pc = "mapped"
    /\ SyncStep
    /\ pc' = AfterSync(syncError')
    /\ exitCode' = IF pc' = "exited" THEN 1 ELSE exitCode
    /\ UNCHANGED <<mounts, mapError, jobVars, issued, parVars>>

\* line 375
StartServerless ==
    /\ pc = "synced"
    /\ pc' = "serving"
    /\ UNCHANGED <<mounts, node, dirs, zipFile, mapError, syncError, exitCode,
                   fetches, extractions, removals, syncCalls, jobVars, issued, parVars>>

\* sync_checkpoints called again and again on the filesystem it left
SyncCall ==
    /\ pc = "sync"
    /\ syncCalls < MaxSyncCalls
    /\ SyncStep
    /\ UNCHANGED <<pc, mounts, mapError, exitCode, jobVars, issued, parVars>>

(***************************************************************************)
(* Initial states                                                          *)
(***************************************************************************)
ContentChoices == {{}, {"base_speakers"}, AllSubs}

\* the filesystems the process may start on
BootFilesystems ==
    {fs \in [mounts : SUBSET {RunpodVolume, Workspace},
             node : {Absent, RegularFile, RealDir} \cup {LinkTo(t) : t \in (Roots \ {Local}) \cup {Dangling}},
             local : ContentChoices,
             volume : {NoDir} \cup [exists : {TRUE}, subs : {{}, AllSubs}]] :
        /\ (fs.node.kind # "dir" => fs.local = {})
        /\ (fs.mounts = {} => fs.volume = NoDir)}

DirsOf(fs) ==
    [r \in Roots |->
        IF r = Local THEN [exists |-> fs.node.kind = "dir", subs |-> fs.local]
        ELSE IF r = Elsewhere THEN [exists |-> TRUE, subs |-> AllSubs]
        ELSE IF fs.mounts # {} /\ r = OpenVoiceDir(NetworkVolumePath(fs.mounts)) THEN fs.volume
        ELSE NoDir]

InitFilesystem(fs) ==
    /\ mounts = fs.mounts
    /\ node = fs.node
    /\ dirs = DirsOf(fs)
    /\ zipFile = FALSE
    /\ mapError = NoError
    /\ syncError = NoError
    /\ exitCode = -1
    /\ fetches = 0
    /\ extractions = 0
    /\ removals = 0
    /\ syncCalls = 0

\* the image as built: checkpoints unpacked in a real directory, no volume
ProvisionedFilesystem ==
    [mounts |-> {}, node |-> RealDir, local |-> AllSubs, volume |-> NoDir]

JobFiles(cfg, pth) ==
    [p \in JobPaths |->
        IF p = LocalRef THEN MinVoiceBytes
        ELSE IF p = LocalSmall THEN MinVoiceBytes - 1
        ELSE IF p = ConfigJson THEN (IF cfg THEN 1 ELSE -1)
        ELSE IF p = CheckpointPth THEN (IF pth THEN 1 ELSE -1)
        ELSE -1]

InitJob(e, cfg, pth) ==
    /\ env = e
    /\ files = JobFiles(cfg, pth)
    /\ job = NoJob
    /\ result = NoResult
    /\ raised = FALSE
    /\ calls = <<>>
    /\ genRef = NoRef
    /\ lastDl = NoDl
    /\ lastFail = "none"
    /\ now = 0

InitNames == issued = <<>>

InitPar ==
    /\ ppc = <<>>
    /\ pvoice = <<>>
    /\ pref = <<>>
    /\ written = {}
    /\ holder = <<>>
    /\ refRead = <<>>
    /\ srcRead = <<>>
    /\ outName = <<>>
    /\ spkLeft = <<>>

(***************************************************************************)
(* SpecJob: the handler, registered, serving one job after another         *)
(***************************************************************************)
InitServing ==
    /\ pc = "serving"
    /\ InitFilesystem(ProvisionedFilesystem)
    /\ \E e \in Envs, cfg \in BOOLEAN, pth \in BOOLEAN :
          /\ ~(cfg /\ pth) => (e.DEFAULT_TEXT = None /\ e.DEFAULT_VOICE_URL = None
                                /\ e.BUCKET_ACCESS_KEY_ID = None
                                /\ e.BUCKET_ENDPOINT_URL = None)
          /\ InitJob(e, cfg, pth)
    /\ InitNames
    /\ InitPar

NextJob == Handler

SpecJob == InitServing /\ [][NextJob]_vars

(***************************************************************************)
(* SpecBoot: the process from its start                                    *)
(***************************************************************************)
InitBoot ==
    /\ pc = "boot"
    /\ \E fs \in BootFilesystems : InitFilesystem(fs)
    /\ InitJob(BareEnv, TRUE, TRUE)
    /\ InitNames
    /\ InitPar

NextBoot ==
    \/ NltkDownload
    \/ MapNetworkVolume
    \/ SyncCheckpoints
    \/ StartServerless
    \/ Handler

SpecBoot == InitBoot /\ [][NextBoot]_vars

(***************************************************************************)
(* SpecSync: sync_checkpoints as an operation                              *)
(***************************************************************************)
InitSync ==
    /\ pc = "sync"
    /\ \E fs \in BootFilesystems : InitFilesystem(fs)
    /\ InitJob(BareEnv, TRUE, TRUE)
    /\ InitNames
    /\ InitPar

NextSync == SyncCall

SpecSync == InitSync /\ [][NextSync]_vars

(***************************************************************************)
(* SpecNames: generate_unique_filename called again and again while the    *)
(* clock runs                                                              *)
(***************************************************************************)
Tick ==
    /\ pc \in {"names", "par"}
    /\ now < MaxClock
    /\ now' = now + 1
    /\ UNCHANGED <<bootVars, env, files, job, result, raised, calls, genRef, lastDl,
                   lastFail, issued, parVars>>

NameCall ==
    /\ pc = "names"
    /\ Len(issued) < MaxCalls
    /\ \E rnd \in 1..NumRand :
          issued' = Append(issued, generate_unique_filename(BaseTitle, WavExt, now, rnd).value)
    /\ UNCHANGED <<bootVars, jobVars, parVars>>

InitNamesSpec ==
    /\ pc = "names"
    /\ InitFilesystem(ProvisionedFilesystem)
    /\ InitJob(BareEnv, TRUE, TRUE)
    /\ InitNames
    /\ InitPar

NextNames == Tick \/ NameCall

SpecNames == InitNamesSpec /\ [][NextNames]_vars

(***************************************************************************)
(* SpecPar: two invocations of handler run in parallel on one filesystem.  *)
(* Each step is one stretch of handler or generate_wav that touches a      *)
(* file; holder[p] is the job whose bytes the fixed path p holds, written  *)
(* the set of (path, job) writes made so far.                              *)
(***************************************************************************)
ParJobs == {1, 2}
FixedPaths == {TmpAudio, SrcPath}
PathOf(name) == <<name>>

PStep(j, to) == ppc' = [ppc EXCEPT ![j] = to]

\* lines 311-322: resolve the reference, downloading it to tmp/audio.wav
PResolve(j) ==
    /\ pc = "par"
    /\ ppc[j] = "start"
    /\ IF StartsWith(pvoice[j], "http://") \/ StartsWith(pvoice[j], "https://")
       THEN \E dl \in DlOutcomes :
            \E d \in {download_file(pvoice[j], TmpAudio, files, dl)} :
               /\ files' = d.files
               /\ written' = IF d.files # files \/ dl.ok
                             THEN written \cup {[path |-> PathOf(TmpAudio), job |-> j]}
                             ELSE written
               /\ holder' = IF d.files # files \/ dl.ok
                            THEN [holder EXCEPT ![TmpAudio] = j] ELSE holder
               /\ pref' = [pref EXCEPT ![j] = TmpAudio]
               /\ PStep(j, IF IsError(d.error) THEN "done" ELSE "resolved")
       ELSE /\ pref' = [pref EXCEPT ![j] = pvoice[j]]
            /\ PStep(j, IF Exists(files, pvoice[j]) THEN "resolved" ELSE "done")
            /\ UNCHANGED <<files, written, holder>>
    /\ UNCHANGED <<bootVars, env, job, result, raised, calls, genRef, lastDl, lastFail, now,
                   issued, pvoice, refRead, srcRead, outName, spkLeft>>

\* lines 325-331: the existence and size check
PCheck(j) ==
    /\ pc = "par"
    /\ ppc[j] = "resolved"
    /\ PStep(j, IF Exists(files, pref[j]) /\ ~FileTooSmall(Getsize(files, pref[j]))
                THEN "checked" ELSE "done")
    /\ UNCHANGED <<bootVars, jobVars, issued, pvoice, pref, written, holder, refRead,
                   srcRead, outName, spkLeft>>

\* lines 190-210: the converter is loaded, the reference read by get_se, the TTS model
\* loaded with its n base speakers
PGetSe(j) ==
    /\ pc = "par"
    /\ ppc[j] = "checked"
    /\ refRead' = [refRead EXCEPT ![j] = IF pref[j] \in FixedPaths THEN holder[pref[j]] ELSE j]
    /\ \E n \in 1..MaxSpeakers : spkLeft' = [spkLeft EXCEPT ![j] = n]
    /\ PStep(j, "tts")
    /\ UNCHANGED <<bootVars, jobVars, issued, pvoice, pref, written, holder, srcRead, outName>>

\* lines 216-217: the base audio is written to outputs_v2/tmp.wav
PTtsToFile(j) ==
    /\ pc = "par"
    /\ ppc[j] = "tts"
    /\ written' = written \cup {[path |-> PathOf(SrcPath), job |-> j]}
    /\ holder' = [holder EXCEPT ![SrcPath] = j]
    /\ PStep(j, "name")
    /\ UNCHANGED <<bootVars, jobVars, issued, pvoice, pref, refRead, srcRead, outName, spkLeft>>

\* line 218
PFilename(j) ==
    /\ pc = "par"
    /\ ppc[j] = "name"
    /\ \E rnd \in 1..NumRand :
          outName' = [outName EXCEPT
                        ![j] = generate_unique_filename(BaseTitle, WavExt, now, rnd).value]
    /\ PStep(j, "convert")
    /\ UNCHANGED <<bootVars, jobVars, issued, pvoice, pref, written, holder, refRead,
                   srcRead, spkLeft>>

\* lines 224-229: the converter reads outputs_v2/tmp.wav and writes the output file
PConvert(j) ==
    /\ pc = "par"
    /\ ppc[j] = "convert"
    /\ srcRead' = [srcRead EXCEPT ![j] = holder[SrcPath]]
    /\ written' = written \cup {[path |-> outName[j], job |-> j]}
    /\ spkLeft' = [spkLeft EXCEPT ![j] = @ - 1]
    /\ PStep(j, IF spkLeft[j] > 1 THEN "tts" ELSE "publish")
    /\ UNCHANGED <<bootVars, jobVars, issued, pvoice, pref, holder, refRead, outName>>

\* lines 231-252 and 335-342
PPublish(j) ==
    /\ pc = "par"
    /\ ppc[j] = "publish"
    /\ PStep(j, "done")
    /\ UNCHANGED <<bootVars, jobVars, issued, pvoice, pref, written, holder, refRead,
                   srcRead, outName, spkLeft>>

InitParSpec ==
    /\ pc = "par"
    /\ InitFilesystem(ProvisionedFilesystem)
    /\ InitJob(BareEnv, TRUE, TRUE)
    /\ InitNames
    /\ ppc = [j \in ParJobs |-> "start"]
    /\ pvoice \in [ParJobs -> {HttpsUrl, LocalRef}]
    /\ pref = [j \in ParJobs |-> None]
    /\ written = {}
    /\ holder = [p \in FixedPaths |-> 0]
    /\ refRead = [j \in ParJobs |-> 0]
    /\ srcRead = [j \in ParJobs |-> 0]
    /\ outName = [j \in ParJobs |-> <<>>]
    /\ spkLeft = [j \in ParJobs |-> 0]

NextPar ==
    \/ Tick
    \/ \E j \in ParJobs : PResolve(j)
    \/ \E j \in ParJobs : PCheck(j)
    \/ \E j \in ParJobs : PGetSe(j)
    \/ \E j \in ParJobs : PTtsToFile(j)
    \/ \E j \in ParJobs : PFilename(j)
    \/ \E j \in ParJobs : PConvert(j)
    \/ \E j \in ParJobs : PPublish(j)

SpecPar == InitParSpec /\ [][NextPar]_vars

(***************************************************************************)
(* Properties                                                              *)
(***************************************************************************)
Handled == job # NoJob
ResultKeys == {"output_audio_path", "error"}
IsSuccess == "output_audio_path" \in DOMAIN result
IsFailure == "error" \in DOMAIN result
Called(f) == f \in Range(calls)

\* the text and voice_url the job runs with, defaults of the environment applied
EffectiveText == IF job.text = Missing THEN env.DEFAULT_TEXT ELSE job.text
EffectiveVoice == IF job.voice_url = Missing THEN env.DEFAULT_VOICE_URL ELSE job.voice_url
IsHttpUrl(v) == v \in {HttpsUrl, HttpUrl}

\* C1: every job handed to handler, a job without 'input' and any failure inside
\* validation, resolution, synthesis or publishing included, ends in exactly one
\* result, {output_audio_path} or {error}, never both, never neither, and no
\* exception leaves handler.
C1_ExactlyOneResult ==
    Handled =>
        /\ ~raised
        /\ DOMAIN result \subseteq ResultKeys
        /\ Cardinality(DOMAIN result) = 1

\* a job without 'input' was answered with an error
C1_Witness ==
    /\ Handled
    /\ ~job.hasInput
    /\ IsFailure
    /\ result.error[1] = "Unexpected error: "

\* C2: a job whose text or voice_url is missing or empty, with the matching
\* environment default unset, is answered with an error, and neither download_file
\* nor generate_wav is called in it.
C2_RequiredFields ==
    (/\ Handled
     /\ \/ job.text \in {Missing, ""} /\ env.DEFAULT_TEXT = None
        \/ job.voice_url \in {Missing, ""} /\ env.DEFAULT_VOICE_URL = None)
    => (IsFailure /\ ~IsSuccess /\ ~Called("download_file") /\ ~Called("generate_wav"))

\* a job with a text and an empty voice_url, no default set, was rejected
C2_Witness ==
    /\ Handled
    /\ job.hasInput
    /\ job.text = "Hello world"
    /\ job.voice_url = ""
    /\ env.DEFAULT_VOICE_URL = None
    /\ result = [error |-> <<"Voice URL is required">>]

\* the job got as far as resolving its reference, and the resolution failed: the
\* download failed, the local path does not exist, or the file is under 1000 bytes
ResolutionFailed ==
    /\ Handled
    /\ job.hasInput
    /\ EffectiveText \notin {None, ""}
    /\ EffectiveVoice \notin {None, ""}
    /\ IF IsHttpUrl(EffectiveVoice)
       THEN ~lastDl.ok \/ lastDl.size < MinVoiceBytes
       ELSE files[EffectiveVoice] < MinVoiceBytes

\* C3: when reference resolution fails the job is answered with an error and
\* generate_wav is not called; generate_wav is only ever called with a reference
\* that exists and holds at least 1000 bytes.
C3_ResolutionGuardsSynthesis ==
    /\ ResolutionFailed => (IsFailure /\ ~Called("generate_wav"))
    /\ Called("generate_wav") =>
          /\ genRef.called
          /\ Exists(files, genRef.path)
          /\ files[genRef.path] >= MinVoiceBytes

\* a download that succeeded with a file one byte short was rejected
C3_Witness ==
    /\ ResolutionFailed
    /\ IsHttpUrl(EffectiveVoice)
    /\ lastDl.ok
    /\ lastDl.size = MinVoiceBytes - 1
    /\ Called("download_file")
    /\ IsFailure

AllCredentials == \A v \in BucketVars : env[v] \notin {None, ""}

\* C4: a successful job returns the object URL of upload_to_s3 exactly when the three
\* storage variables are all set and non-empty, and a data URI exactly when one is
\* absent; without them no upload is attempted, with them a failed upload is an error.
C4_PublishByCredentials ==
    /\ (Handled /\ IsSuccess) =>
          /\ AllCredentials =>
                /\ Called("upload_to_s3")
                /\ Len(result.output_audio_path) = 5
                /\ result.output_audio_path[1] = env.BUCKET_ENDPOINT_URL
                /\ result.output_audio_path[1] # DataUriPrefix
          /\ ~AllCredentials =>
                /\ ~Called("upload_to_s3")
                /\ result.output_audio_path[1] = DataUriPrefix
    /\ (Handled /\ Called("upload_to_s3") /\ lastFail = "upload_file") => IsFailure
    /\ (Handled /\ ~AllCredentials) => ~Called("upload_to_s3")

\* two of the three variables set, the third unset: the job succeeded with a data URI
C4_Witness ==
    /\ Handled
    /\ IsSuccess
    /\ env.BUCKET_ENDPOINT_URL \notin {None, ""}
    /\ env.BUCKET_ACCESS_KEY_ID # None
    /\ env.BUCKET_SECRET_ACCESS_KEY = None
    /\ result.output_audio_path[1] = DataUriPrefix

AllRequiredPresent == \A i \in DOMAIN RequiredDirs : ExistsUnderApp(node, dirs, RequiredDirs[i])

\* C5: a call of sync_checkpoints that finds every required subdirectory under the
\* target directory downloads nothing, extracts nothing, deletes nothing, leaves the
\* filesystem as it was and returns no error.
C5_CacheHitIsNoOp ==
    [][(syncCalls' = syncCalls + 1 /\ AllRequiredPresent) =>
          /\ node' = node
          /\ dirs' = dirs
          /\ zipFile' = zipFile
          /\ fetches' = fetches
          /\ extractions' = extractions
          /\ removals' = removals
          /\ syncError' = NoError]_vars

\* a second call, after a first one that downloaded and unpacked, did nothing
C5_Witness ==
    /\ syncCalls = 2
    /\ fetches = 1
    /\ extractions = 1
    /\ removals = 1
    /\ syncError = NoError
    /\ AllRequiredPresent

\* C6: the handler is registered only after sync_checkpoints returned without error;
\* an error of it ends the process with exit code 1 before any job is handled, and
\* nothing else does: an error of map_network_volume prevents neither provisioning
\* nor registration.
C6_StartupOrder ==
    /\ pc \in {"synced", "serving"} => (syncCalls = 1 /\ ~IsError(syncError))
    /\ Handled => pc = "serving"
    /\ IsError(syncError) => (pc = "exited" /\ exitCode = 1 /\ ~Handled)
    /\ pc = "exited" => IsError(syncError)
    /\ (IsError(mapError) /\ pc \notin {"boot", "start", "mapped"}) => syncCalls = 1

\* map_network_volume failed, and the handler was registered and served a job
C6_Witness ==
    /\ IsError(mapError)
    /\ pc = "serving"
    /\ Handled

\* C7: two calls of generate_unique_filename with the same base title and extension
\* return different filenames, also within one clock second.
C7_FilenamesNeverCollide ==
    \A a, b \in DOMAIN issued : a # b => issued[a] # issued[b]

\* C8: the converter's config and weights files are checked before the model load is
\* attempted: with either absent, generate_wav fails with 'Required checkpoint file
\* not found: <path>' and the load is never attempted.
C8_CheckedBeforeLoad ==
    (/\ Handled
     /\ Called("generate_wav")
     /\ lastFail # "makedirs"
     /\ ~Exists(files, ConfigJson) \/ ~Exists(files, CheckpointPth))
    => /\ ~Called("ToneColorConverter")
       /\ IsFailure
       /\ result.error[2][1] = "Required checkpoint file not found: "

\* C9: with two handler invocations in parallel no path of the scratch or output
\* directories is written by both jobs, and the reference and the base audio a job
\* reads are the ones it wrote.
C9_NoSharedPaths ==
    /\ \A w1, w2 \in written : w1.path = w2.path => w1.job = w2.job
    /\ \A j \in DOMAIN refRead : refRead[j] \in {0, j}
    /\ \A j \in DOMAIN srcRead : srcRead[j] \in {0, j}

\* C10: with a network volume mounted, map_network_volume returns no error and
\* leaves /app/checkpoints_v2 a symbolic link to <volume>/OpenVoice, whatever was
\* there before.
C10_VolumeLinked ==
    (pc \notin {"boot", "start"} /\ NetworkVolumePath(mounts) # None)
    => /\ ~IsError(mapError)
       /\ node = LinkTo(OpenVoiceDir(NetworkVolumePath(mounts)))

====
